---- MODULE Spec2Model ----
(***************************************************************************)
(* Word-timing synchronisation engine of word-timing-app (src/src/main.tsx) *)
(*                                                                         *)
(* Time is fixed-point: one unit is half a millisecond (0.0005 s), so the  *)
(* tolerance IntervalTree.EPSILON = 0.001 s is 2 units and EPSILON/2 is    *)
(* representable.  A jump of `ms` milliseconds is 2*ms units.              *)
(***************************************************************************)
EXTENDS Integers, Sequences, FiniteSets, TLC

\* ------------------------------------------------------------------ bounds
\* Longest insert sequence in the tree-only specification.
MaxInserts == 3

\* ------------------------------------------------------------- constants
\* IntervalTree.EPSILON = 0.001 s, in half-millisecond units.
EPSILON == 2

\* WordTiming.sentenceIndex is optional: the absent value (JS undefined).
Undefined == 0 - 1

Max(a, b) == IF a >= b THEN a ELSE b
Min(a, b) == IF a <= b THEN a ELSE b

\* ------------------------------------------------------------ IntervalTree
\* A tree is [root |-> 0 | index, nodes |-> sequence of IntervalNode]; a link
\* (left, right, root) is an index into nodes, 0 for null.

\* new IntervalNode(timing)
IntervalNode(timing) ==
  [start |-> timing.start, end |-> timing.end, max |-> timing.end,
   data |-> timing, left |-> 0, right |-> 0]

\* new IntervalTree()
EmptyTree == [root |-> 0, nodes |-> << >>]

\* Mutant of InsertRec: the ancestors' max is not updated.
RECURSIVE InsertRecNoMax(_, _, _)
InsertRecNoMax(nodes, r, n) ==
  IF nodes[n].start < nodes[r].start
  THEN IF nodes[r].left = 0
       THEN [nodes EXCEPT ![r].left = n]
       ELSE InsertRecNoMax(nodes, nodes[r].left, n)
  ELSE IF nodes[r].right = 0
       THEN [nodes EXCEPT ![r].right = n]
       ELSE InsertRecNoMax(nodes, nodes[r].right, n)

\* Mutant of InsertRec: only the node the new leaf is attached to updates its
\* max.
RECURSIVE InsertRecParentMax(_, _, _)
InsertRecParentMax(nodes, r, n) ==
  IF nodes[n].start < nodes[r].start
  THEN IF nodes[r].left = 0
       THEN [nodes EXCEPT ![r].left = n,
                          ![r].max = Max(nodes[r].max, nodes[n].end)]
       ELSE InsertRecParentMax(nodes, nodes[r].left, n)
  ELSE IF nodes[r].right = 0
       THEN [nodes EXCEPT ![r].right = n,
                          ![r].max = Max(nodes[r].max, nodes[n].end)]
       ELSE InsertRecParentMax(nodes, nodes[r].right, n)

\* Mutant of InsertRec: a start equal to the node's start goes left.
RECURSIVE InsertRecTiesLeft(_, _, _)
InsertRecTiesLeft(nodes, r, n) ==
  LET sub ==
        IF nodes[n].start <= nodes[r].start
        THEN IF nodes[r].left = 0
             THEN [nodes EXCEPT ![r].left = n]
             ELSE InsertRecTiesLeft(nodes, nodes[r].left, n)
        ELSE IF nodes[r].right = 0
             THEN [nodes EXCEPT ![r].right = n]
             ELSE InsertRecTiesLeft(nodes, nodes[r].right, n)
  IN [sub EXCEPT ![r].max = Max(sub[r].max, sub[n].end)]

\* IntervalTree._insert(root, node): nodes already holds the new node at
\* index n; r is the index of the subtree root the recursion is at.
RECURSIVE InsertRec(_, _, _)
InsertRec(nodes, r, n) ==
  LET sub ==
        IF nodes[n].start < nodes[r].start
        THEN IF nodes[r].left = 0
             THEN [nodes EXCEPT ![r].left = n]
             ELSE InsertRec(nodes, nodes[r].left, n)
        ELSE IF nodes[r].right = 0
             THEN [nodes EXCEPT ![r].right = n]
             ELSE InsertRec(nodes, nodes[r].right, n)
  IN [sub EXCEPT ![r].max = Max(sub[r].max, sub[n].end)]

\* Mutant of Insert: the new node becomes the root, above the old root.
InsertAtRoot(t, timing) ==
  LET nd == IntervalNode(timing)
      nodes == Append(t.nodes, nd)
      n == Len(nodes)
  IN IF t.root = 0
     THEN [root |-> n, nodes |-> nodes]
     ELSE [root |-> n,
           nodes |-> [nodes EXCEPT
                        ![n].left = IF t.nodes[t.root].start < nd.start
                                    THEN t.root ELSE 0,
                        ![n].right = IF t.nodes[t.root].start < nd.start
                                     THEN 0 ELSE t.root,
                        ![n].max = Max(nd.end, t.nodes[t.root].max)]]

\* IntervalTree.insert(timing)
Insert(t, timing) ==
  LET nodes == Append(t.nodes, IntervalNode(timing))
      n == Len(nodes)
  IN IF t.root = 0
     THEN [root |-> n, nodes |-> nodes]
     ELSE [root |-> t.root, nodes |-> InsertRec(nodes, t.root, n)]

\* Mutant of FindOverlappingRec: the right subtree is entered only when
\* point >= node.start, without the tolerance.
RECURSIVE FindOverlappingRecRightNoEps(_, _, _, _)
FindOverlappingRecRightNoEps(eps, nodes, node, point) ==
  IF node = 0 \/ point > nodes[node].max + eps
  THEN << >>
  ELSE LET nd == nodes[node]
           here == IF point >= nd.start - eps /\ point <= nd.end + eps
                   THEN << nd.data >> ELSE << >>
           inLeft == IF nd.left # 0 /\ point <= nodes[nd.left].max + eps
                     THEN FindOverlappingRecRightNoEps(eps, nodes, nd.left, point)
                     ELSE << >>
           inRight == IF nd.right # 0 /\ point >= nd.start
                      THEN FindOverlappingRecRightNoEps(eps, nodes, nd.right, point)
                      ELSE << >>
       IN here \o inLeft \o inRight

\* Mutant of FindOverlappingRec: the left subtree is pruned on the left
\* child's own end instead of its max.
RECURSIVE FindOverlappingRecLeftEnd(_, _, _, _)
FindOverlappingRecLeftEnd(eps, nodes, node, point) ==
  IF node = 0 \/ point > nodes[node].max + eps
  THEN << >>
  ELSE LET nd == nodes[node]
           here == IF point >= nd.start - eps /\ point <= nd.end + eps
                   THEN << nd.data >> ELSE << >>
           inLeft == IF nd.left # 0 /\ point <= nodes[nd.left].end + eps
                     THEN FindOverlappingRecLeftEnd(eps, nodes, nd.left, point)
                     ELSE << >>
           inRight == IF nd.right # 0 /\ point >= nd.start - eps
                      THEN FindOverlappingRecLeftEnd(eps, nodes, nd.right, point)
                      ELSE << >>
       IN here \o inLeft \o inRight

\* Mutant of FindOverlappingRec: a node matches only when the point is inside
\* [start, end], without the tolerance.
RECURSIVE FindOverlappingRecExact(_, _, _, _)
FindOverlappingRecExact(eps, nodes, node, point) ==
  IF node = 0 \/ point > nodes[node].max + eps
  THEN << >>
  ELSE LET nd == nodes[node]
           here == IF point >= nd.start /\ point <= nd.end
                   THEN << nd.data >> ELSE << >>
           inLeft == IF nd.left # 0 /\ point <= nodes[nd.left].max + eps
                     THEN FindOverlappingRecExact(eps, nodes, nd.left, point)
                     ELSE << >>
           inRight == IF nd.right # 0 /\ point >= nd.start - eps
                      THEN FindOverlappingRecExact(eps, nodes, nd.right, point)
                      ELSE << >>
       IN here \o inLeft \o inRight

\* Mutant of FindOverlappingRec: the left subtree is visited before the node.
RECURSIVE FindOverlappingRecInOrder(_, _, _, _)
FindOverlappingRecInOrder(eps, nodes, node, point) ==
  IF node = 0 \/ point > nodes[node].max + eps
  THEN << >>
  ELSE LET nd == nodes[node]
           here == IF point >= nd.start - eps /\ point <= nd.end + eps
                   THEN << nd.data >> ELSE << >>
           inLeft == IF nd.left # 0 /\ point <= nodes[nd.left].max + eps
                     THEN FindOverlappingRecInOrder(eps, nodes, nd.left, point)
                     ELSE << >>
           inRight == IF nd.right # 0 /\ point >= nd.start - eps
                      THEN FindOverlappingRecInOrder(eps, nodes, nd.right, point)
                      ELSE << >>
       IN inLeft \o here \o inRight

\* IntervalTree._findOverlapping(node, point, result) with the tolerance eps
\* in the place of IntervalTree.EPSILON: the words pushed onto result by the
\* call, in push order (the node, then its left subtree, then its right).
RECURSIVE FindOverlappingRec(_, _, _, _)
FindOverlappingRec(eps, nodes, node, point) ==
  IF node = 0 \/ point > nodes[node].max + eps
  THEN << >>
  ELSE LET nd == nodes[node]
           here == IF point >= nd.start - eps /\ point <= nd.end + eps
                   THEN << nd.data >> ELSE << >>
           inLeft == IF nd.left # 0 /\ point <= nodes[nd.left].max + eps
                     THEN FindOverlappingRec(eps, nodes, nd.left, point)
                     ELSE << >>
           inRight == IF nd.right # 0 /\ point >= nd.start - eps
                      THEN FindOverlappingRec(eps, nodes, nd.right, point)
                      ELSE << >>
       IN here \o inLeft \o inRight

\* IntervalTree.findOverlapping(point)
FindOverlapping(t, point) ==
  FindOverlappingRec(EPSILON, t.nodes, t.root, point)

\* timings.forEach(timing => tree.insert(timing)) on a fresh tree
RECURSIVE InsertAll(_, _)
InsertAll(t, ws) ==
  IF ws = << >> THEN t ELSE InsertAll(Insert(t, Head(ws)), Tail(ws))

\* ---------------------------------------------------------------- inputs
\* Media duration of the loaded audio, in time units.
Duration == 20
\* Most animation-frame callbacks pending at once.
MaxRaf == 2
\* Most play / pause events queued and not yet dispatched.
MaxEvents == 1

Word(text, s, e, idx) ==
  [word |-> text, start |-> s, end |-> e, sentenceIndex |-> idx]

\* Transcripts handed to handleJsonInput (the results of extractWordTimings).
\* The first has two sentences, the words of sentence 0 touching within
\* EPSILON and listed out of start order.  The second is listed out of
\* start order, mixes a word without sentenceIndex with one of sentence 0,
\* and has a gap [5, 13] no word reaches even with the tolerance (at 5 only
\* A, already ended, still matches).  In both, no word reaches the end of
\* the media, not even with the tolerance.
Transcripts ==
  { << Word("there", 5, 9, 0), Word("hello", 0, 4, 0), Word("world", 14, 16, 1) >>,
    << Word("B", 14, 16, 0), Word("A", 0, 4, Undefined) >> }

\* The transcripts loaded while playback is not modelled: those above and one
\* of two sentences in which the word of sentence 1 starts where the first
\* word of sentence 0 ends, and the last word of sentence 0 has no length and
\* lies after the end of the media (the transcript is longer than the audio).
PausedTranscripts ==
  Transcripts \cup
    { << Word("one", 0, 5, 0), Word("two", 5, 9, 1),
         Word("late", Duration + 2, Duration + 2, 0) >> }

\* Positions at which the playing audio is observed besides the end of the
\* media.
FrameTimes == {5, 14}

\* Offset of the finest jump buttons, in milliseconds (lines 993-1041): from
\* position 0 it reaches the end of the media exactly, from anywhere else it
\* leaves the media; the coarser offsets (100 ms to 10 min) always leave it.
JumpMs == {10}

\* ms / 1000 seconds, in time units
MsToTime(ms) == 2 * ms

VARIABLES
  timings,               \* useState: the transcript
  currentWordTimings,    \* useState: the ActiveSet
  currentSentenceWords,  \* useState: the SentenceGroup
  isPlaying,             \* useState
  persistWordsRef,       \* useRef: TRUE = persist mode, FALSE = strict mode
  tree,                  \* intervalTreeRef.current
  inserted,              \* ghost: the timings inserted into tree, in order
  hasAudio,              \* audioRef.current is an element (audio loaded)
  audioTime,             \* audio.currentTime
  audioPaused,           \* audio.paused
  rafRef,                \* rafRef.current: the pending callback it names, or 0
  rafPending,            \* requestAnimationFrame callbacks not yet run, oldest first
  handlers,              \* the listeners the audio effect has registered
  evq,                   \* audio events fired and not yet dispatched
  effectPending,         \* effects whose dependencies changed, not yet run
  error,                 \* useState: the message shown, "" for none
  last                   \* ghost: the last step and the tick it issued

vars == << timings, currentWordTimings, currentSentenceWords, isPlaying,
           persistWordsRef, tree, inserted, hasAudio, audioTime,
           audioPaused, rafRef, rafPending, handlers, evq, effectPending,
           error, last >>

\* ------------------------------------------------------- updateCurrentWords
\* Mutant of ModeFilter: the raw result is never filtered.
ModeFilterRaw(found, time, persist) == found

\* validCurrentWordTimings after the persistWordsRef filter (lines 581-586)
ModeFilter(found, time, persist) ==
  IF ~persist THEN SelectSeq(found, LAMBDA w : time <= w.end) ELSE found

\* timings.filter(timing => timing.sentenceIndex === currentSentenceIndex)
SentenceWords(tm, idx) == SelectSeq(tm, LAMBDA t : t.sentenceIndex = idx)

\* Mutant of UpdateCurrentWords: an empty result clears both sets in persist
\* mode too.
UpdateCurrentWordsClearing(time, tm) ==
  LET valid == ModeFilter(FindOverlapping(tree, time), time, persistWordsRef)
  IN IF Len(valid) > 0
     THEN [cwt |-> valid,
           csw |-> IF valid[1].sentenceIndex # Undefined
                   THEN SentenceWords(tm, valid[1].sentenceIndex)
                   ELSE currentSentenceWords]
     ELSE [cwt |-> << >>, csw |-> << >>]

\* Mutant of UpdateCurrentWords: in persist mode an empty result drops the
\* first of the retained words.
UpdateCurrentWordsDecay(time, tm) ==
  LET valid == ModeFilter(FindOverlapping(tree, time), time, persistWordsRef)
  IN IF Len(valid) > 0
     THEN [cwt |-> valid,
           csw |-> IF valid[1].sentenceIndex # Undefined
                   THEN SentenceWords(tm, valid[1].sentenceIndex)
                   ELSE currentSentenceWords]
     ELSE IF ~persistWordsRef
          THEN [cwt |-> << >>, csw |-> << >>]
          ELSE [cwt |-> IF currentWordTimings = << >> THEN << >>
                        ELSE Tail(currentWordTimings),
                csw |-> currentSentenceWords]

\* Mutant of UpdateCurrentWords: in persist mode an empty result empties the
\* ActiveSet and keeps the SentenceGroup.
UpdateCurrentWordsPersistDrop(time, tm) ==
  LET valid == ModeFilter(FindOverlapping(tree, time), time, persistWordsRef)
  IN IF Len(valid) > 0
     THEN [cwt |-> valid,
           csw |-> IF valid[1].sentenceIndex # Undefined
                   THEN SentenceWords(tm, valid[1].sentenceIndex)
                   ELSE currentSentenceWords]
     ELSE IF ~persistWordsRef
          THEN [cwt |-> << >>, csw |-> << >>]
          ELSE [cwt |-> << >>, csw |-> currentSentenceWords]

\* updateCurrentWords(time), called from a closure that captured timings = tm:
\* the values the two setters leave in currentWordTimings and
\* currentSentenceWords.
UpdateCurrentWords(time, tm) ==
  LET valid == ModeFilter(FindOverlapping(tree, time), time, persistWordsRef)
  IN IF Len(valid) > 0
     THEN [cwt |-> valid,
           csw |-> IF valid[1].sentenceIndex # Undefined
                   THEN SentenceWords(tm, valid[1].sentenceIndex)
                   ELSE currentSentenceWords]
     ELSE IF ~persistWordsRef
          THEN [cwt |-> << >>, csw |-> << >>]
          ELSE [cwt |-> currentWordTimings, csw |-> currentSentenceWords]

\* The ghost `last` records what the last step did: op names the handler
\* when it called updateCurrentWords (ticked) or findOverlapping; p is the
\* point, tm the timings the calling closure captured, found the value
\* findOverlapping returned; again says that the step before was also a call
\* of updateCurrentWords, at the same point and from a closure over the same
\* timings.
NoLast ==
  [op |-> "none", ticked |-> FALSE, p |-> 0, tm |-> << >>, found |-> << >>,
   again |-> FALSE]

\* A step `op` that calls updateCurrentWords(time) from a closure over tm.
Tick(op, time, tm) ==
  LET r == UpdateCurrentWords(time, tm)
  IN /\ currentWordTimings' = r.cwt
     /\ currentSentenceWords' = r.csw
     /\ last' = [op |-> op, ticked |-> TRUE, p |-> time, tm |-> tm,
                 found |-> FindOverlapping(tree, time),
                 again |-> last.ticked /\ last.p = time /\ last.tm = tm]

\* A step `op` that does not call updateCurrentWords.
NoTick(op) ==
  /\ UNCHANGED << currentWordTimings, currentSentenceWords >>
  /\ last' = NoLast

\* ------------------------------------------------------------ environment
\* The value audio.currentTime holds after `audio.currentTime = t`: the media
\* element moves a seek outside the media into [0, duration].
SeekTo(t) == Max(0, Min(Duration, t))

\* The audio element fires timeupdate after a seek and while it plays;
\* timeupdate events not yet dispatched coalesce into one.
WithTimeUpdate(q) ==
  IF \E i \in 1..Len(q) : q[i] = "timeupdate" THEN q ELSE Append(q, "timeupdate")

\* Animation-frame callbacks.  rafPending is the browser's list of callbacks
\* not yet run, in the order they were requested (the order it runs them);
\* a callback is the closure of updateWords that was passed.  An id names a
\* callback only while it is pending, so rafRef is modelled as the position
\* in rafPending of the callback whose id it holds, and 0 when it is undefined
\* or holds the id of a callback that has run or was cancelled (cancelling
\* such an id does nothing).

\* requestAnimationFrame(updateWords) for the closure h.  updateWords of a
\* closure over isPlaying = false returns before it reads anything, so the
\* timings it closed over are not recorded.
Callback(h) ==
  [playing |-> h.playing, tm |-> IF h.playing THEN h.tm ELSE << >>]

\* Mutant of Cancel: with no callback to name, the oldest pending callback is
\* cancelled.
CancelOldest(pending, ref) ==
  IF ref = 0
  THEN (IF pending = << >> THEN pending ELSE Tail(pending))
  ELSE SubSeq(pending, 1, ref - 1) \o SubSeq(pending, ref + 1, Len(pending))

\* cancelAnimationFrame(rafRef.current): the list it leaves
Cancel(pending, ref) ==
  IF ref = 0 THEN pending
  ELSE SubSeq(pending, 1, ref - 1) \o SubSeq(pending, ref + 1, Len(pending))

NoHandlers == [on |-> FALSE, tm |-> << >>, playing |-> FALSE]

\* ------------------------------------------------------------------- Init
\* The App after its first render and first run of the effects: no audio
\* element yet, an empty transcript and an empty tree.
Init ==
  /\ timings = << >>
  /\ currentWordTimings = << >>
  /\ currentSentenceWords = << >>
  /\ isPlaying = FALSE
  /\ persistWordsRef = TRUE
  /\ tree = EmptyTree
  /\ inserted = << >>
  /\ hasAudio = FALSE
  /\ audioTime = 0
  /\ audioPaused = TRUE
  /\ rafRef = 0
  /\ rafPending = << >>
  /\ handlers = NoHandlers
  /\ evq = << >>
  /\ effectPending = [tree |-> FALSE, audio |-> FALSE]
  /\ error = ""
  /\ last = NoLast

\* ---------------------------------------------------------------- actions
\* handleJsonInput(json) where extractWordTimings(json) = T is non-empty and
\* json names no audio key: setTimings(T), then the render; both effects
\* depend on timings.
HandleJsonInput(T) ==
  /\ error' = ""
  /\ timings' = T
  /\ effectPending' = [tree |-> TRUE, audio |-> TRUE]
  /\ NoTick("load")
  /\ UNCHANGED << isPlaying, persistWordsRef, tree, inserted,
                  hasAudio, audioTime, audioPaused, rafRef, rafPending,
                  handlers, evq >>

\* Mutant of BuildTree: the tree is left with the first word only.
BuildTreePartial(tm) == InsertAll(EmptyTree, SubSeq(tm, 1, 1))

\* Mutant of BuildTree: the words are inserted into the tree in place.
BuildTreeOnto(tm) == InsertAll(tree, tm)

\* The inputs handleJsonInput rejects: blank text, text JSON.parse throws on,
\* and JSON from which extractWordTimings returns no word (and which names no
\* audio key).
FailedJson == {"blank", "unparseable", "no timings"}

\* The message handleJsonInput sets for a rejected input.
ErrorMessage(json) ==
  CASE json = "blank" -> "Please enter JSON data"
    [] json = "unparseable" -> "Invalid JSON format"
    [] OTHER -> "No valid word timings found in the JSON data"

\* Mutant of HandleJsonInputFailed: the rejected input empties the
\* transcript.
HandleJsonInputFailedClearing(json) ==
  /\ error' = ErrorMessage(json)
  /\ timings' = << >>
  /\ effectPending' = [tree |-> TRUE, audio |-> TRUE]
  /\ last' = [NoLast EXCEPT !.op = "load failed"]
  /\ UNCHANGED << currentWordTimings, currentSentenceWords,
                  isPlaying, persistWordsRef, tree, inserted, hasAudio,
                  audioTime, audioPaused, rafRef, rafPending, handlers, evq >>

\* handleJsonInput(json) for a rejected input: setError(message) and return.
HandleJsonInputFailed(json) ==
  /\ error' = ErrorMessage(json)
  /\ last' = [NoLast EXCEPT !.op = "load failed"]
  /\ UNCHANGED << timings, currentWordTimings, currentSentenceWords,
                  isPlaying, persistWordsRef, tree, inserted, hasAudio,
                  audioTime, audioPaused, rafRef, rafPending, handlers, evq,
                  effectPending >>

\* The effect of lines 323-331: a new tree holding the rendered timings.
BuildTree(tm) == InsertAll(EmptyTree, tm)

\* The cleanup the audio effect returned (lines 718-727), if it registered.
CleanupPending ==
  IF handlers.on THEN Cancel(rafPending, rafRef) ELSE rafPending

\* The effect of lines 656-716: its listeners close over the rendered
\* timings and isPlaying; without an audio element it registers nothing.
RegisteredHandlers ==
  IF hasAudio
  THEN [on |-> TRUE, tm |-> timings, playing |-> isPlaying]
  ELSE NoHandlers

\* React runs the effects whose dependencies changed in the last render:
\* first the tree effect, then the audio effect (cleanup, then body).
RunEffects ==
  /\ effectPending.tree \/ effectPending.audio
  /\ IF effectPending.tree
     THEN tree' = BuildTree(timings) /\ inserted' = timings
     ELSE UNCHANGED << tree, inserted >>
  /\ IF effectPending.audio
     THEN /\ rafPending' = CleanupPending
          /\ rafRef' = IF handlers.on THEN 0 ELSE rafRef
          /\ handlers' = RegisteredHandlers
     ELSE UNCHANGED << rafPending, rafRef, handlers >>
  /\ effectPending' = [tree |-> FALSE, audio |-> FALSE]
  /\ NoTick("effects")
  /\ UNCHANGED << timings, isPlaying, persistWordsRef, hasAudio,
                  audioTime, audioPaused, evq,
                  error >>

\* handleAudioUpload with the session's audio file: the audio element is
\* rendered, at position 0 and paused.  Neither effect depends on the audio
\* state, so the listeners are not registered by this step.
HandleAudioUpload ==
  /\ error' = ""
  /\ ~hasAudio
  /\ hasAudio' = TRUE
  /\ audioTime' = 0
  /\ audioPaused' = TRUE
  /\ NoTick("audio")
  /\ UNCHANGED << timings, isPlaying, persistWordsRef, tree,
                  inserted, rafRef, rafPending, handlers, evq, effectPending >>

\* Mutant of SetPersistWords: the change of mode also empties the ActiveSet
\* and the SentenceGroup.
SetPersistWordsClearing(b) ==
  /\ persistWordsRef' = b
  /\ currentWordTimings' = << >>
  /\ currentSentenceWords' = << >>
  /\ last' = NoLast
  /\ UNCHANGED << timings, isPlaying, tree, inserted, hasAudio,
                  audioTime, audioPaused, rafRef, rafPending, handlers, evq,
                  effectPending,
                  error >>

\* The persistWords checkbox (lines 921-924).
SetPersistWords(b) ==
  /\ persistWordsRef' = b
  /\ NoTick("mode")
  /\ UNCHANGED << timings, isPlaying, tree, inserted, hasAudio,
                  audioTime, audioPaused, rafRef, rafPending, handlers, evq,
                  effectPending,
                  error >>

\* What a handler of the current render does when it seeks to newTime:
\* audio.currentTime = newTime; setCurrentTime(newTime);
\* updateCurrentWords(newTime).
SeekAndTick(op, newTime) ==
  /\ hasAudio
  /\ audioTime' = SeekTo(newTime)
  /\ evq' = WithTimeUpdate(evq)
  /\ Tick(op, newTime, timings)
  /\ UNCHANGED << timings, isPlaying, persistWordsRef, tree, inserted,
                  hasAudio, audioPaused, rafRef, rafPending, handlers,
                  effectPending,
                  error >>

\* jumpBack(ms): newTime = Math.max(0, currentTime - ms / 1000)
JumpBackTime(ms) == Max(0, audioTime - MsToTime(ms))
JumpBack(ms) == SeekAndTick("jumpBack", JumpBackTime(ms))

\* jumpForward(ms): newTime = currentTime + ms / 1000
JumpForwardTime(ms) == audioTime + MsToTime(ms)
JumpForward(ms) == SeekAndTick("jumpForward", JumpForwardTime(ms))

\* handleWordClick(timing), for a word button of the sentence display
HandleWordClick(w) ==
  /\ \E i \in 1..Len(currentSentenceWords) : currentSentenceWords[i] = w
  /\ SeekAndTick("wordClick", w.start)

\* timing.sentenceIndex === target, for a number target: false for a word
\* without sentenceIndex, whatever number encodes undefined here
IsSentence(w, target) ==
  w.sentenceIndex # Undefined /\ w.sentenceIndex = target

\* Mutant of FindSentence: a word without sentenceIndex counts as a word of
\* the sentence before sentence 0.
FindSentenceLoose(tm, target) ==
  IF \E i \in 1..Len(tm) : tm[i].sentenceIndex = target
  THEN CHOOSE i \in 1..Len(tm) :
         /\ tm[i].sentenceIndex = target
         /\ \A j \in 1..(i - 1) : tm[j].sentenceIndex # target
  ELSE 0

\* Mutant of FindSentence: the word of the sentence with the smallest start.
FindSentenceEarliest(tm, target) ==
  IF \E i \in 1..Len(tm) : IsSentence(tm[i], target)
  THEN CHOOSE i \in 1..Len(tm) :
         /\ IsSentence(tm[i], target)
         /\ \A j \in 1..Len(tm) :
              (j # i /\ IsSentence(tm[j], target)) =>
                (tm[i].start < tm[j].start \/ (tm[i].start = tm[j].start /\ i < j))
  ELSE 0

\* timings.find(timing => timing.sentenceIndex === target): the index of the
\* first such word, 0 when there is none
FindSentence(tm, target) ==
  IF \E i \in 1..Len(tm) : IsSentence(tm[i], target)
  THEN CHOOSE i \in 1..Len(tm) :
         /\ IsSentence(tm[i], target)
         /\ \A j \in 1..(i - 1) : ~IsSentence(tm[j], target)
  ELSE 0

\* The name the ghost gives jumpToSentence(direction).
JumpOp(dir) == IF dir = 1 THEN "jumpToSentence forward" ELSE "jumpToSentence back"

\* A handler `op` that returned without changing anything.
Returned(op) ==
  /\ last' = [NoLast EXCEPT !.op = op]
  /\ UNCHANGED << timings, currentWordTimings, currentSentenceWords,
                  isPlaying, persistWordsRef, tree, inserted, hasAudio,
                  audioTime, audioPaused, rafRef, rafPending, handlers, evq,
                  effectPending,
                  error >>

\* jumpToSentence(direction): dir = 1 for "forward", -1 for "back"
JumpToSentence(dir) ==
  LET cur == IF Len(currentWordTimings) = 0 THEN Undefined
             ELSE currentWordTimings[1].sentenceIndex
      found == IF cur = Undefined THEN 0 ELSE FindSentence(timings, cur + dir)
  IN IF hasAudio /\ found # 0
     THEN SeekAndTick(JumpOp(dir), timings[found].start)
     ELSE Returned(JumpOp(dir))

\* Positions the time display is dragged to.
ScrubTimes == {0, 14}

\* handleMouseMove while dragging, mapped to newTime = t: a change of less
\* than 0.001 s is ignored; otherwise audio.currentTime = t and
\* setCurrentTime(t), and the element fires timeupdate.  The handler does not
\* call updateCurrentWords.
HandleMouseMove(t) ==
  /\ hasAudio
  /\ Max(t - audioTime, audioTime - t) >= EPSILON
  /\ audioTime' = SeekTo(t)
  /\ evq' = WithTimeUpdate(evq)
  /\ NoTick("scrub")
  /\ UNCHANGED << timings, isPlaying, persistWordsRef, tree, inserted,
                  hasAudio, audioPaused, rafRef, rafPending, handlers,
                  effectPending,
                  error >>

\* togglePlayback: audio.pause() or audio.play(), then
\* setIsPlaying(!isPlaying); the audio effect depends on isPlaying.  The
\* element fires "pause" / "play" only when its paused state changes.
TogglePlayback ==
  /\ hasAudio
  /\ Len(evq) < MaxEvents
  /\ IF isPlaying
     THEN /\ audioPaused' = TRUE
          /\ evq' = IF audioPaused THEN evq ELSE Append(evq, "pause")
     ELSE /\ audioPaused' = FALSE
          /\ evq' = IF audioPaused THEN Append(evq, "play") ELSE evq
  /\ isPlaying' = ~isPlaying
  /\ effectPending' = [effectPending EXCEPT !.audio = TRUE]
  /\ NoTick("toggle")
  /\ UNCHANGED << timings, persistWordsRef, tree, inserted,
                  hasAudio, audioTime, rafRef, rafPending, handlers,
                  error >>

\* The playback clock: audio.currentTime advances while the element plays;
\* at the end of the media the element pauses itself and fires "pause".
ClockAdvance(t) ==
  /\ hasAudio /\ ~audioPaused
  /\ t = Duration => Len(evq) < MaxEvents
  /\ t > audioTime \/ t = Duration
  /\ audioTime' = t
  /\ audioPaused' = (t = Duration)
  /\ evq' = WithTimeUpdate(IF audioTime' = Duration
                           THEN Append(evq, "pause") ELSE evq)
  /\ NoTick("clock")
  /\ UNCHANGED << timings, isPlaying, persistWordsRef, tree,
                  inserted, hasAudio, rafRef, rafPending, handlers,
                  effectPending,
                  error >>

\* setIsPlaying(v) from a listener: a render, and the audio effect again
\* when the value changed.
PendingAfterSetIsPlaying(v) ==
  [effectPending EXCEPT !.audio = effectPending.audio \/ (isPlaying # v)]

\* playHandler of the registered listeners h (lines 682-688):
\* setIsPlaying(true); updateWords(); rafRef.current =
\* requestAnimationFrame(updateWords).  updateWords (lines 660-675) returns
\* at once when the isPlaying it closed over is false.
PlayHandler(h) ==
  LET pending1 == IF h.playing THEN Append(rafPending, Callback(h))
                  ELSE rafPending
  IN /\ Len(pending1) < MaxRaf
     /\ isPlaying' = TRUE
     /\ effectPending' = PendingAfterSetIsPlaying(TRUE)
     /\ IF h.playing
        THEN Tick("play", audioTime, h.tm)
        ELSE NoTick("play")
     /\ rafPending' = Append(pending1, Callback(h))
     /\ rafRef' = Len(pending1) + 1

\* The name the ghost gives pauseHandler: it tells the calls made when
\* rafRef.current names no pending callback.
PauseOp == IF rafRef = 0 THEN "pause, none scheduled" ELSE "pause"

\* pauseHandler of the registered listeners h (lines 700-711)
PauseHandler(h) ==
  /\ isPlaying' = FALSE
  /\ effectPending' = PendingAfterSetIsPlaying(FALSE)
  /\ rafPending' = Cancel(rafPending, rafRef)
  /\ rafRef' = 0
  /\ Tick(PauseOp, audioTime, h.tm)

\* timeUpdateHandler of the registered listeners h (lines 690-698)
TimeUpdateHandler(h) ==
  /\ IF ~h.playing
     THEN Tick("timeupdate", audioTime, h.tm)
     ELSE NoTick("timeupdate")
  /\ UNCHANGED << isPlaying, effectPending, rafPending, rafRef >>

\* The browser dispatches the oldest queued audio event to the listeners
\* registered at that moment; with none registered the event is lost.
DispatchEvent ==
  /\ evq # << >>
  /\ evq' = Tail(evq)
  /\ IF ~handlers.on
     THEN /\ NoTick("lost")
          /\ UNCHANGED << isPlaying, effectPending, rafPending, rafRef >>
     ELSE CASE Head(evq) = "play" -> PlayHandler(handlers)
            [] Head(evq) = "pause" -> PauseHandler(handlers)
            [] OTHER -> TimeUpdateHandler(handlers)
  /\ UNCHANGED << timings, persistWordsRef, tree, inserted, hasAudio,
                  audioTime, audioPaused, handlers,
                  error >>

\* The browser runs the oldest pending animation-frame callback: updateWords
\* of the closure that requested it (lines 660-675), which requests the next
\* frame unless the isPlaying it closed over is false.
AnimationFrame ==
  LET cb == Head(rafPending)
      rest == Tail(rafPending)
  IN /\ rafPending # << >>
     /\ IF cb.playing
        THEN /\ Tick("frame", audioTime, cb.tm)
             /\ rafPending' = Append(rest, Callback(cb))
             /\ rafRef' = Len(rest) + 1
        ELSE /\ NoTick("frame")
             /\ rafPending' = rest
             /\ rafRef' = IF rafRef = 0 THEN 0 ELSE rafRef - 1
     /\ UNCHANGED << timings, isPlaying, persistWordsRef, tree, inserted,
                     hasAudio, audioTime, audioPaused, handlers, evq,
                     effectPending,
                  error >>

Next ==
  \/ \E T \in Transcripts : HandleJsonInput(T)
  \/ RunEffects
  \/ HandleAudioUpload
  \/ \E b \in BOOLEAN : SetPersistWords(b)
  \/ \E ms \in JumpMs : JumpBack(ms)
  \/ \E ms \in JumpMs : JumpForward(ms)
  \/ \E w \in UNION {{T[i] : i \in 1..Len(T)} : T \in Transcripts} : HandleWordClick(w)
  \/ \E t \in ScrubTimes : HandleMouseMove(t)
  \/ TogglePlayback
  \/ \E t \in FrameTimes \cup {Duration} : ClockAdvance(t)
  \/ DispatchEvent
  \/ AnimationFrame

\* The program as its page drives it with inputs that load: every handler a
\* control of the page calls, the effects, the audio events and the animation
\* frames.  jumpToSentence is not among them: the buttons that call it are
\* commented out of the JSX.
Spec == Init /\ [][Next]_vars

\* ---------------------------------------------- the handlers without playback
\* A second specification of the App in which playback is never started: the
\* handlers above except togglePlayback (so no frame is requested and only
\* timeupdate events occur), and with them jumpToSentence, as if its buttons
\* were rendered, and the inputs handleJsonInput rejects.  The error message
\* is written by the load handlers and read by no handler.
NextPaused ==
  \/ \E T \in PausedTranscripts : HandleJsonInput(T)
  \/ \E json \in FailedJson : HandleJsonInputFailed(json)
  \/ RunEffects
  \/ HandleAudioUpload
  \/ \E b \in BOOLEAN : SetPersistWords(b)
  \/ \E ms \in JumpMs : JumpBack(ms)
  \/ \E ms \in JumpMs : JumpForward(ms)
  \/ \E w \in UNION {{T[i] : i \in 1..Len(T)} : T \in PausedTranscripts} : HandleWordClick(w)
  \/ \E dir \in {0 - 1, 1} : JumpToSentence(dir)
  \/ \E t \in ScrubTimes : HandleMouseMove(t)
  \/ DispatchEvent

SpecPaused == Init /\ [][NextPaused]_vars

\* ------------------------------------------------- the IntervalTree alone
\* A second specification drives the IntervalTree class by itself, from the
\* empty tree: any sequence of at most MaxInserts inserts of intervals with
\* start <= end, in any order and with repeats, and queries at any point.
TreeTimes == {0, 1, 3, 6}

TreeWords ==
  {Word("w", iv[1], iv[2], Undefined) :
     iv \in {x \in TreeTimes \X TreeTimes : x[1] <= x[2]}}

\* Query points: from more than EPSILON before the first start to 2*EPSILON
\* after the last end.
TreePoints ==
  LET lo == CHOOSE x \in TreeTimes : \A y \in TreeTimes : x <= y
      hi == CHOOSE x \in TreeTimes : \A y \in TreeTimes : x >= y
  IN (lo - EPSILON - 1) .. (hi + 2 * EPSILON)

\* tree.insert(w)
TreeInsert(w) ==
  /\ Len(inserted) < MaxInserts
  /\ tree' = Insert(tree, w)
  /\ inserted' = Append(inserted, w)
  /\ NoTick("insert")
  /\ UNCHANGED << timings, isPlaying, persistWordsRef, hasAudio, audioTime,
                  audioPaused, rafRef, rafPending, handlers, evq,
                  effectPending,
                  error >>

\* tree.findOverlapping(p)
TreeQuery(p) ==
  /\ last' = [op |-> "query", ticked |-> FALSE, p |-> p, tm |-> << >>,
              found |-> FindOverlapping(tree, p),
              again |-> last.op = "query" /\ last.p = p]
  /\ UNCHANGED << timings, currentWordTimings, currentSentenceWords,
                  isPlaying, persistWordsRef, tree, inserted, hasAudio,
                  audioTime, audioPaused, rafRef, rafPending, handlers, evq,
                  effectPending,
                  error >>

NextTree ==
  \/ \E w \in TreeWords : TreeInsert(w)
  \/ \E p \in TreePoints : TreeQuery(p)

SpecTree == Init /\ [][NextTree]_vars

\* ================================================================= claims
Range(q) == {q[i] : i \in 1..Len(q)}

\* How many times w occurs in the sequence q.
Count(q, w) == Cardinality({i \in 1..Len(q) : q[i] = w})

\* The tolerant range [start - eps, end + eps] of w contains p.
InRange(w, p, eps) == w.start - eps <= p /\ p <= w.end + eps

\* The brute-force scan: every inserted interval whose tolerant range
\* contains p.
BruteForce(ws, p) == SelectSeq(ws, LAMBDA w : InRange(w, p, EPSILON))

\* The orders in which the intervals of ws can be inserted.
OrdersOf(ws) ==
  {[i \in 1..Len(ws) |-> ws[f[i]]] : f \in Permutations(1..Len(ws))}

\* C1: after any sequence of inserts into the empty tree, findOverlapping(p)
\* returns exactly the inserted intervals whose tolerant range
\* [start - EPSILON, end + EPSILON] contains p, each as often as it was
\* inserted: the pruned traversal agrees with the brute-force scan, and the
\* empty tree returns nothing.
C1_QueryIsBruteForce ==
  last.op = "query" =>
    /\ Len(last.found) = Len(BruteForce(inserted, last.p))
    /\ \A w \in Range(inserted) \cup Range(last.found) :
         Count(last.found, w) = Count(BruteForce(inserted, last.p), w)

\* C1 witness: a query after three inserts, two of them the same interval,
\* that returns both copies and leaves the third interval out.
C1_Witness ==
  /\ last.op = "query"
  /\ Len(inserted) = 3
  /\ inserted[1] = inserted[3]
  /\ inserted[2] # inserted[1]
  /\ last.found = << inserted[1], inserted[3] >>

\* C2: an inserted interval I (zero-length ones included) is returned by the
\* query at every point p with I.start <= p <= I.end, whatever was inserted
\* before or after it, and also by the same traversal run with tolerance 0.
C2_Containment ==
  last.op = "query" =>
    \A i \in 1..Len(inserted) :
      (inserted[i].start <= last.p /\ last.p <= inserted[i].end) =>
        /\ inserted[i] \in Range(last.found)
        /\ inserted[i] \in Range(FindOverlappingRec(0, tree.nodes, tree.root, last.p))

\* C2 witness: a zero-length interval inserted between two others is found
\* at its own point, where the tolerance-0 traversal returns it alone.
C2_Witness ==
  /\ last.op = "query"
  /\ Len(inserted) = 3
  /\ inserted[2].start = last.p /\ inserted[2].end = last.p
  /\ inserted[2] \in Range(last.found)
  /\ FindOverlappingRec(0, tree.nodes, tree.root, last.p) = << inserted[2] >>
  /\ Len(last.found) = 3

\* C3: for every inserted interval I, the query at I.end + EPSILON/2 returns
\* I and the query at I.end + 2*EPSILON does not; a point at most EPSILON
\* before I.start returns I and a point more than EPSILON before it does not.
C3_EpsilonBoundary ==
  last.op = "query" =>
    \A i \in 1..Len(inserted) :
      LET I == inserted[i] IN
        /\ last.p = I.end + EPSILON \div 2 => I \in Range(last.found)
        /\ last.p = I.end + 2 * EPSILON => I \notin Range(last.found)
        /\ (I.start - EPSILON <= last.p /\ last.p < I.start) => I \in Range(last.found)
        /\ last.p < I.start - EPSILON => I \notin Range(last.found)

\* C3 witness: one query point that is EPSILON/2 after the end of one
\* interval, 2*EPSILON after the end of another and exactly EPSILON before
\* the start of a third.
C3_Witness ==
  /\ last.op = "query"
  /\ Len(inserted) = 3
  /\ last.p = inserted[1].end + EPSILON \div 2
  /\ last.p = inserted[2].end + 2 * EPSILON
  /\ last.p = inserted[3].start - EPSILON
  /\ Range(last.found) = {inserted[1], inserted[3]}

\* The words of the sequence q that are live at p: p <= end.
Live(q, p) == SelectSeq(q, LAMBDA w : p <= w.end)

\* The words of the transcript tm whose sentenceIndex is that of w.
SentenceOf(tm, w) == SelectSeq(tm, LAMBDA t : t.sentenceIndex = w.sentenceIndex)

\* The last step was a call of updateCurrentWords made when the tree holds
\* the current transcript and no effect is waiting to run.
TickAfterRebuild ==
  /\ last.ticked
  /\ ~effectPending.tree /\ ~effectPending.audio
  /\ inserted = timings

\* C4: once a new transcript is loaded and the tree rebuilt from it, a tick
\* leaves in the ActiveSet and the SentenceGroup only words of the new
\* transcript, in strict and in persist mode, also at points where the new
\* transcript has no match.
C4_NoStaleWordsAfterLoad ==
  TickAfterRebuild =>
    Range(currentWordTimings) \cup Range(currentSentenceWords) \subseteq Range(timings)

\* C5: in persist mode a tick whose raw query is non-empty makes the
\* ActiveSet the raw result, unfiltered; a tick whose raw query is empty
\* leaves the ActiveSet and the SentenceGroup as they were.
C5_PersistMode ==
  [][(last'.ticked /\ persistWordsRef) =>
       IF last'.found # << >>
       THEN currentWordTimings' = last'.found
       ELSE /\ currentWordTimings' = currentWordTimings
            /\ currentSentenceWords' = currentSentenceWords]_vars

\* C5 witness: a persist-mode tick by a closure over the current transcript
\* at a point with no match, after which a word of that transcript which
\* ended more than EPSILON before the point is still active.
C5_Witness ==
  /\ last.ticked /\ persistWordsRef
  /\ last.tm = timings /\ inserted = timings
  /\ last.found = << >>
  /\ currentWordTimings # << >>
  /\ \A w \in Range(currentWordTimings) :
       w \in Range(timings) /\ w.end + EPSILON < last.p

\* C6: in strict mode a tick at p makes the ActiveSet exactly the raw matches
\* with p <= end, so every active word has start - EPSILON <= p <= end; when
\* none is left the ActiveSet and the SentenceGroup are both empty.
C6_StrictMode ==
  (last.ticked /\ ~persistWordsRef) =>
    /\ currentWordTimings = Live(last.found, last.p)
    /\ \A w \in Range(currentWordTimings) :
         w.start - EPSILON <= last.p /\ last.p <= w.end
    /\ Live(last.found, last.p) = << >> =>
         currentWordTimings = << >> /\ currentSentenceWords = << >>

\* C6 witness: a strict-mode tick just after a word ended: the raw query
\* still returns the word within the tolerance, and both sets are empty.
C6_Witness ==
  /\ last.ticked /\ ~persistWordsRef
  /\ last.found # << >>
  /\ \A w \in Range(last.found) : w.end < last.p
  /\ currentWordTimings = << >> /\ currentSentenceWords = << >>

\* C7: after every tick that leaves a non-empty ActiveSet, the SentenceGroup
\* is the words of the current transcript, in transcript order, that have the
\* sentenceIndex of the ActiveSet's first element.
C7_SentenceGroupRecomputed ==
  (last.ticked /\ currentWordTimings # << >>) =>
    currentSentenceWords = SentenceOf(timings, currentWordTimings[1])

\* C7, for the ticks the statement is true of: the tick is made by a
\* closure over the current transcript, on the tree built from it, its
\* filtered query result is non-empty and the first word of that result has a
\* sentenceIndex.
C7_SentenceGroupOfFreshMatch ==
  (/\ TickAfterRebuild /\ last.tm = timings
   /\ currentWordTimings # << >>
   /\ currentWordTimings = (IF persistWordsRef THEN last.found
                            ELSE Live(last.found, last.p))
   /\ currentWordTimings[1].sentenceIndex # Undefined) =>
    currentSentenceWords = SentenceOf(timings, currentWordTimings[1])

C9_OrderIndependent ==
  last.op = "query" =>
    \A o \in OrdersOf(inserted) :
      Range(FindOverlapping(InsertAll(EmptyTree, o), last.p)) = Range(last.found)

\* C9 witness: a query whose result lists two intervals in an order that
\* another insertion order of the same intervals reverses.
C9_Witness ==
  /\ last.op = "query"
  /\ Len(inserted) = 3
  /\ Len(last.found) = 2
  /\ \E o \in OrdersOf(inserted) :
       FindOverlapping(InsertAll(EmptyTree, o), last.p)
         = << last.found[2], last.found[1] >>
  /\ last.found[1] # last.found[2]

\* C10: jumpBack and jumpForward issue one tick, at the position the
\* playback is left at, which is inside [0, duration].
C10_JumpClamped ==
  last.op \in {"jumpBack", "jumpForward"} =>
    /\ last.ticked
    /\ 0 <= last.p /\ last.p <= Duration
    /\ last.p = audioTime

\* C10, for jumpBack alone.
C10_JumpBackClamped ==
  last.op = "jumpBack" =>
    /\ last.ticked
    /\ 0 <= last.p /\ last.p <= Duration
    /\ last.p = audioTime

\* The sentence jumpToSentence(dir) looks for, seen from the state before the
\* call: the sentenceIndex of the ActiveSet's first word, plus dir.
HasCurrentSentence ==
  currentWordTimings # << >> /\ currentWordTimings[1].sentenceIndex # Undefined

\* The positions in the transcript of the words of the sentence dir away from
\* the current one.
TargetWords(dir) ==
  IF ~HasCurrentSentence THEN {}
  ELSE {i \in 1..Len(timings) :
          /\ timings[i].sentenceIndex # Undefined
          /\ timings[i].sentenceIndex = currentWordTimings[1].sentenceIndex + dir}

\* C11: jumpToSentence returns without changing anything when there is no
\* current sentence (no active word, or the first active word has no
\* sentenceIndex) or no word of the transcript has the current index + 1
\* (forward) or - 1 (back): the playback position, the ActiveSet, the
\* SentenceGroup, the tree and everything else stay as they were.
C11_JumpToMissingSentenceIsNoOp ==
  [][\A dir \in {0 - 1, 1} :
       (last'.op = JumpOp(dir) /\ TargetWords(dir) = {}) =>
         /\ ~last'.ticked
         /\ UNCHANGED << timings, currentWordTimings, currentSentenceWords,
                         isPlaying, persistWordsRef, tree, inserted, hasAudio,
                         audioTime, audioPaused, rafRef, rafPending, handlers,
                         evq, effectPending,
                  error >>]_vars

\* C11 witness: jumpToSentence("back") has returned without a tick while a
\* word of sentence 0 is active, the position is not 0 and the transcript
\* holds a word without sentenceIndex (which is not sentence -1).
C11_Witness ==
  /\ last.op = JumpOp(0 - 1) /\ ~last.ticked
  /\ hasAudio /\ audioTime > 0
  /\ currentWordTimings # << >>
  /\ currentWordTimings[1].sentenceIndex = 0
  /\ currentWordTimings[1] \in Range(timings)
  /\ \E i \in 1..Len(timings) : timings[i].sentenceIndex = Undefined

PlaybackStopped ==
  /\ hasAudio /\ audioPaused /\ ~isPlaying
  /\ evq = << >>
  /\ ~effectPending.tree /\ ~effectPending.audio

\* The pending animation-frame callbacks that will tick when they run.
LiveCallbacks == {i \in 1..Len(rafPending) : rafPending[i].playing}

\* C13: once playback has stopped (the pause event handled, the effect's
\* cleanup run), no animation-frame callback that ticks is still scheduled,
\* and no pending callback was scheduled under another transcript than the
\* current one.
C13_NoTickScheduledAfterStop ==
  /\ PlaybackStopped => LiveCallbacks = {}
  /\ (~effectPending.tree /\ ~effectPending.audio) =>
       \A i \in LiveCallbacks : rafPending[i].tm = timings

\* The words stored in the tree t, in the order they were inserted.
Stored(t) == [i \in 1..Len(t.nodes) |-> t.nodes[i].data]

\* C14: whatever the interleaving of loads, rebuilds and ticks, the tree a
\* tick can read is always the complete tree of one transcript (or the empty
\* tree before the first rebuild), never a tree holding some of a
\* transcript's words; the raw result of every tick is the query of such a
\* tree.
C14_TickReadsCompleteTree ==
  /\ \E T \in Transcripts \cup {<< >>} :
       Stored(tree) = T /\ tree = InsertAll(EmptyTree, T)
  /\ last.ticked =>
       \E T \in Transcripts \cup {<< >>} :
         last.found = FindOverlapping(InsertAll(EmptyTree, T), last.p)

\* C14 witness: a tick between the load of a transcript and the rebuild: it
\* has read the complete tree of the transcript loaded before.
C14_Witness ==
  /\ last.ticked
  /\ effectPending.tree
  /\ timings # Stored(tree)
  /\ Stored(tree) \in Transcripts
  /\ last.found # << >>

\* C15: once the rebuild that follows a load has run, the tree stores exactly
\* the words of the loaded transcript, each once and in the transcript's
\* order, and no word of a transcript loaded before.
C15_TreeHoldsLoadedTranscript ==
  ~effectPending.tree =>
    /\ Stored(tree) = timings
    /\ tree = InsertAll(EmptyTree, timings)

\* C15 witness: the tree rebuilt for a second transcript, while a word of
\* the first that the second lacks is still in the ActiveSet.
C15_Witness ==
  /\ ~effectPending.tree
  /\ timings \in Transcripts
  /\ Stored(tree) = timings
  /\ currentWordTimings # << >>
  /\ currentWordTimings[1] \notin Range(timings)

\* C16: while playback is not running, once every seek, pause and load has
\* been handled (no event and no effect outstanding), the ActiveSet and the
\* SentenceGroup are those of a tick at the current playback position on the
\* current transcript.
C16_TickedAtCurrentPosition ==
  PlaybackStopped =>
    LET valid == IF persistWordsRef
                 THEN FindOverlapping(InsertAll(EmptyTree, timings), audioTime)
                 ELSE Live(FindOverlapping(InsertAll(EmptyTree, timings), audioTime),
                           audioTime)
    IN IF valid # << >>
       THEN /\ currentWordTimings = valid
            /\ valid[1].sentenceIndex # Undefined =>
                 currentSentenceWords = SentenceOf(timings, valid[1])
       ELSE ~persistWordsRef =>
              currentWordTimings = << >> /\ currentSentenceWords = << >>

\* C17: a change of the activation mode changes persistWordsRef only: the
\* tree, the transcript, the ActiveSet, the SentenceGroup and everything else
\* stay as they were; and every tick, whichever closure or running loop
\* fires it, applies the mode the flag has at that moment.
C17_ModeChangeOnlyFlag ==
  [][/\ persistWordsRef' # persistWordsRef =>
          UNCHANGED << timings, currentWordTimings, currentSentenceWords,
                       isPlaying, tree, inserted, hasAudio, audioTime,
                       audioPaused, rafRef, rafPending, handlers, evq,
                       effectPending,
                  error >>
     /\ last'.ticked =>
          LET valid == IF persistWordsRef' THEN last'.found
                       ELSE Live(last'.found, last'.p)
          IN /\ persistWordsRef' = persistWordsRef
             /\ currentWordTimings' =
                  (IF valid # << >> THEN valid
                   ELSE IF persistWordsRef' THEN currentWordTimings
                   ELSE << >>)]_vars

\* C17 witness: strict mode was selected (persist is the mode at start) and
\* a tick of the animation-frame loop has applied it: the word the raw query
\* returned has ended and the ActiveSet is empty, while the transcript and
\* the tree are those loaded.
C17_Witness ==
  /\ last.ticked /\ last.op = "frame"
  /\ ~persistWordsRef
  /\ last.found # << >>
  /\ currentWordTimings = << >>
  /\ timings \in Transcripts /\ Stored(tree) = timings

\* The words of the subtree at node, in pre-order: the node, its left
\* subtree, its right subtree.
RECURSIVE PreOrder(_, _)
PreOrder(nodes, node) ==
  IF node = 0 THEN << >>
  ELSE << nodes[node].data >> \o PreOrder(nodes, nodes[node].left)
         \o PreOrder(nodes, nodes[node].right)

\* C19: a query changes nothing in the tree; it returns the matching
\* intervals in the pre-order of the tree; and a query at the point of the
\* query just before it, with no insert in between, returns the same
\* sequence.
C19_QueryReadOnlyStableOrder ==
  [][last'.op = "query" =>
       /\ tree' = tree
       /\ last'.found =
            SelectSeq(PreOrder(tree.nodes, tree.root),
                      LAMBDA w : InRange(w, last'.p, EPSILON))
       /\ last'.again => last'.found = last.found]_vars

\* C19 witness: the second of two queries in a row at one point that returns
\* three intervals, the root's left child before its right child although
\* the right child was inserted first.
C19_Witness ==
  /\ last.op = "query" /\ last.again
  /\ Len(inserted) = 3 /\ Len(last.found) = 3
  /\ last.found = << inserted[1], inserted[3], inserted[2] >>
  /\ inserted[2] # inserted[3]

\* C20: stopping the schedule when rafRef.current names no pending callback
\* (none was scheduled, or the one it named was cancelled just before) is
\* harmless: the pause handler then leaves the pending callbacks, the tree
\* and the transcript as they were and only issues its tick; the effect
\* cleanup then leaves the pending callbacks, the ActiveSet and the
\* SentenceGroup as they were, and the tree unless the tree effect was due.
C20_CancelIdempotent ==
  [][/\ last'.op = "pause, none scheduled" =>
          /\ rafPending' = rafPending
          /\ tree' = tree /\ timings' = timings
          /\ last'.ticked /\ last'.p = audioTime
     /\ (effectPending.audio /\ ~effectPending'.audio /\ rafRef = 0) =>
          /\ rafPending' = rafPending
          /\ currentWordTimings' = currentWordTimings
          /\ currentSentenceWords' = currentSentenceWords
          /\ ~effectPending.tree => tree' = tree]_vars

\* C20 witness: the pause handler has run when rafRef.current named no
\* pending callback, and a callback is still pending.
C20_Witness ==
  /\ last.op = "pause, none scheduled"
  /\ rafPending # << >>
  /\ rafRef = 0

RECURSIVE Subtree(_, _)
Subtree(nodes, node) ==
  IF node = 0 THEN {}
  ELSE {node} \cup Subtree(nodes, nodes[node].left)
              \cup Subtree(nodes, nodes[node].right)

\* The ancestors of node n in the tree t: the nodes that have n below them.
Ancestors(t, n) ==
  {a \in 1..Len(t.nodes) : a # n /\ n \in Subtree(t.nodes, a)}

\* C21: after any sequence of inserts, the max of every node is the largest
\* end among the intervals of the subtree rooted at the node, the node's own
\* interval included.
C21_MaxIsSubtreeMaxEnd ==
  \A n \in 1..Len(tree.nodes) :
    /\ \E m \in Subtree(tree.nodes, n) : tree.nodes[n].max = tree.nodes[m].end
    /\ \A m \in Subtree(tree.nodes, n) : tree.nodes[m].end <= tree.nodes[n].max

\* C21 witness: three inserts forming a chain, the last with the largest
\* end, so that the root's max is the end of its grandchild and larger than
\* the root's own end and its child's.
C21_Witness ==
  /\ Len(tree.nodes) = 3
  /\ 3 \in Subtree(tree.nodes, 2)
  /\ tree.nodes[1].max = tree.nodes[3].end
  /\ tree.nodes[3].end > tree.nodes[1].end
  /\ tree.nodes[3].end > tree.nodes[2].end
  /\ tree.nodes[2].max = tree.nodes[3].end

\* C22: after any sequence of inserts, every node in the left subtree of a
\* node n has start < n.start and every node in its right subtree has
\* start >= n.start.
C22_SearchTreeOrder ==
  \A n \in 1..Len(tree.nodes) :
    /\ \A m \in Subtree(tree.nodes, tree.nodes[n].left) :
         tree.nodes[m].start < tree.nodes[n].start
    /\ \A m \in Subtree(tree.nodes, tree.nodes[n].right) :
         tree.nodes[m].start >= tree.nodes[n].start

\* C22 witness: three inserts with the same start: the second is the right
\* child of the first and the third the right child of the second.
C22_Witness ==
  /\ Len(tree.nodes) = 3
  /\ tree.nodes[1].start = tree.nodes[2].start
  /\ tree.nodes[2].start = tree.nodes[3].start
  /\ tree.nodes[1].right = 2 /\ tree.nodes[2].right = 3
  /\ tree.nodes[1].left = 0

\* C23: insert adds exactly one node, a leaf; every node that was in the tree
\* keeps its data, start, end and the children it had, so also its parent
\* (no rotation, no removal); exactly one null link, of a node that was in
\* the tree, now points to the new leaf; and max changes only on ancestors of
\* the new leaf and never decreases.
C23_InsertOnlyAddsLeaf ==
  [][tree' # tree =>
       LET old == tree.nodes
           new == tree'.nodes
           n == Len(new)
       IN /\ n = Len(old) + 1
          /\ new[n].left = 0 /\ new[n].right = 0
          /\ new[n].data = inserted'[n] /\ new[n].max = new[n].end
          /\ tree'.root = (IF tree.root = 0 THEN n ELSE tree.root)
          /\ \A i \in 1..Len(old) :
               /\ new[i].data = old[i].data
               /\ new[i].start = old[i].start /\ new[i].end = old[i].end
               /\ old[i].left # 0 => new[i].left = old[i].left
               /\ old[i].right # 0 => new[i].right = old[i].right
               /\ new[i].left \in {old[i].left, n}
               /\ new[i].right \in {old[i].right, n}
               /\ new[i].max >= old[i].max
               /\ new[i].max # old[i].max => i \in Ancestors(tree', n)
          /\ Len(old) > 0 =>
               Cardinality({i \in 1..Len(old) :
                              new[i].left # old[i].left
                              \/ new[i].right # old[i].right}) = 1
          /\ Subtree(new, tree'.root) = 1..n]_vars

\* C23 witness: the third insert has attached its leaf under the second
\* node and raised the max of both its ancestors.
C23_Witness ==
  /\ Len(inserted) = 3 /\ Len(tree.nodes) = 3
  /\ tree.nodes[3].left = 0 /\ tree.nodes[3].right = 0
  /\ tree.nodes[2].left = 3
  /\ tree.nodes[1].right = 2
  /\ tree.nodes[1].max = inserted[3].end
  /\ inserted[3].end > inserted[1].end /\ inserted[3].end > inserted[2].end

\* C24: while the mode is persist, a non-empty ActiveSet is non-empty after
\* every step, ticks included, and the ActiveSet changes only in a tick whose
\* raw query is non-empty (to that raw result). So once a tick has produced a
\* non-empty ActiveSet it stays non-empty after every later tick for as long
\* as the mode stays persist.
C24_PersistKeepsActiveSet ==
  [][persistWordsRef =>
       /\ currentWordTimings # << >> => currentWordTimings' # << >>
       /\ currentWordTimings' # currentWordTimings =>
            /\ last'.ticked /\ last'.found # << >>
            /\ currentWordTimings' = last'.found]_vars

\* C24 witness: two animation-frame ticks in a row, in persist mode, at a
\* point where nothing matches, with the ActiveSet still holding a word.
C24_Witness ==
  /\ persistWordsRef
  /\ last.ticked /\ last.again /\ last.op = "frame"
  /\ last.found = << >>
  /\ currentWordTimings # << >>

\* C25: playback drives ticks.  When the play event is delivered to the
\* registered listeners, whether or not the effect has re-registered them
\* since the play was requested, a tick is issued at the audio position and a
\* ticking frame callback is pending; every frame callback that ticks does so
\* at the audio position and schedules the next one, which rafRef names; and
\* while the audio keeps playing a ticking callback stays pending after every
\* step.
C25_PlaybackDrivesTicks ==
  [][/\ (evq # << >> /\ Head(evq) = "play" /\ evq' = Tail(evq) /\ handlers.on) =>
          (last'.ticked /\ last'.p = audioTime /\ LiveCallbacks' # {})
     /\ last'.op = "frame" =>
          (last'.p = audioTime /\ rafRef' \in LiveCallbacks')
     /\ (hasAudio /\ isPlaying /\ ~audioPaused /\ LiveCallbacks # {}
         /\ isPlaying' /\ ~audioPaused') =>
          LiveCallbacks' # {}]_vars

\* C26: single tick chain.  In every reachable state at most one ticking
\* animation-frame callback is pending, and rafRef holds its id.
C26_SingleTickChain ==
  /\ Cardinality(LiveCallbacks) <= 1
  /\ \A i \in LiveCallbacks : rafRef = i

\* C27: index/transcript consistency on every tick.  Whenever
\* updateCurrentWords has run, the tree it queried stores exactly the timings
\* its closure used to compute the SentenceGroup.
C27_TickIndexMatchesTranscript ==
  last.ticked => last.tm = Stored(tree)

\* C28: ActiveSet/SentenceGroup agreement.  After every tick, if the
\* ActiveSet is non-empty then every word of the SentenceGroup has the
\* sentenceIndex of the ActiveSet's first element (none, when that element
\* has none), and in strict mode a non-empty SentenceGroup implies a
\* non-empty ActiveSet.
C28_GroupAgreesWithActiveSet ==
  last.ticked =>
    /\ currentWordTimings # << >> =>
         \A w \in Range(currentSentenceWords) :
           w.sentenceIndex = currentWordTimings[1].sentenceIndex
    /\ (~persistWordsRef /\ currentSentenceWords # << >>) =>
         currentWordTimings # << >>

\* C29: a successful sentence jump lands in the target sentence.  When
\* jumpToSentence has found a word of the sentence next to the current one
\* and ticked at its start, on the tree of the current transcript, the
\* ActiveSet's first element has the target sentenceIndex and the
\* SentenceGroup is the target sentence.
C29_JumpLandsInTargetSentence ==
  [][\A dir \in {0 - 1, 1} :
       (/\ last'.op = JumpOp(dir) /\ last'.ticked
        /\ Stored(tree) = timings) =>
         LET target == currentWordTimings[1].sentenceIndex + dir
         IN /\ currentWordTimings' # << >>
            /\ currentWordTimings'[1].sentenceIndex = target
            /\ currentSentenceWords' = SentenceWords(timings, target)]_vars

\* The words a call of handleWordClick that has just ticked at p can have
\* been given, among those of the current transcript: the words of the
\* sentence display (before the call) that start at p.
ClickedWords(p) ==
  {w \in Range(currentSentenceWords) \cap Range(timings) :
     w.start = p /\ w.start <= w.end}

\* C30, as stated: after handleWordClick(w) for a word w of the current
\* transcript with w.start <= w.end, the playback position equals w.start
\* and w is in the ActiveSet, in strict and in persist mode, whatever the
\* ActiveSet was.
C30_WordClickActivates ==
  [][last'.op = "wordClick" =>
       \A w \in ClickedWords(last'.p) :
         /\ audioTime' = w.start
         /\ w \in Range(currentWordTimings')]_vars

\* C30, for the clicks the statement is true of apart from the position:
\* when the tree holds the current transcript, handleWordClick(w) ticks at
\* w.start, leaves the playback position at w.start moved into the media,
\* and w is in the ActiveSet, in strict and in persist mode.
C30_WordClickActivatesOnCurrentTree ==
  [][(last'.op = "wordClick" /\ Stored(tree) = timings) =>
       \A w \in ClickedWords(last'.p) :
         /\ audioTime' = SeekTo(w.start)
         /\ last'.ticked /\ last'.p = w.start
         /\ w \in Range(currentWordTimings')]_vars

====
